---- MODULE Spec2Model ----
(***************************************************************************)
(* Binary heaps of github.com/ocuris/container/heap.                       *)
(*                                                                         *)
(*   PriorityQueue[T]  src/main.go (package heap, lines 29-233): the       *)
(*                     comparator-based queue, optionally bounded.         *)
(*   pq[T]             src/heap/heap.go: natural-order min/max heap,       *)
(*                     optionally bounded.                                 *)
(*   main              src/main.go lines 9-27: the demo program.           *)
(*                                                                         *)
(* Go slices are 0-indexed; TLA+ sequences are 1-indexed.  Every index in  *)
(* this module is the Go index; At and Swap do the shift.                  *)
(***************************************************************************)
EXTENDS Integers, Sequences, FiniteSets, Bags, TLC

\* Elements are the integers 0..MaxVal (T = int).
MaxVal == 2
\* An unbounded queue is exercised up to MaxLen elements.
MaxLen == 6
\* Bounded queues are built with capacities 1..MaxCap.
MaxCap == 3
\* The demo program is run against capacities 0..MaxDemoCap.
MaxDemoCap == 4
\* The size accounting of an unbounded queue is followed for MaxCalls pushes.
MaxCalls == 7
\* The element accounting is followed for MaxPushed accepted pushes.
MaxPushed == 4

Values == 0..MaxVal

\* var zero T
Zero == 0

VARIABLES
    data,        \* PriorityQueue.data
    comparator,  \* PriorityQueue.comparator (which function it is)
    capacity,    \* PriorityQueue.capacity
    hdata,       \* pq.data
    hcap,        \* pq.cap
    hmin,        \* pq.min
    panicked,    \* the message of the panic that ended the program, or "none"
    call,        \* the last call made by the caller: [op, arg]
    ret,         \* what that call returned: [val, ok]
    old,         \* the receiver's fields as they were when that call was made
    out,         \* the values returned by the successful Pops made in a row
    k,           \* number of Push calls made
    m,           \* number of Pop calls that returned a value
    pc,          \* position of the demo program main()
    impl,        \* which heap the demo program runs on
    items,       \* the Item-based PriorityQueue (a slice of Item)
    loop,        \* the method in progress, when followed loop step by loop step
    acct         \* the caller's books: what it pushed, popped, removed, lost, cleared

vars == <<data, comparator, capacity, hdata, hcap, hmin, panicked,
          call, ret, old, out, k, m, pc, impl, items, loop, acct>>

\* No method is in progress.
LoopIdle ==
    [pc |-> "idle", i |-> 0, swapped |-> FALSE, after |-> "return",
     x |-> Zero, index |-> 0]

\* The books of a caller that has made no call yet; each field is a bag.
NoAccount ==
    [pushed |-> EmptyBag, popped |-> EmptyBag, removed |-> EmptyBag,
     evicted |-> EmptyBag, cleared |-> EmptyBag]

pqVars == <<data, comparator, capacity>>
hVars == <<hdata, hcap, hmin>>

-----------------------------------------------------------------------------
(* Slices *)

At(d, i) == d[i + 1]

Swap(d, i, j) == [d EXCEPT ![i + 1] = d[j + 1], ![j + 1] = d[i + 1]]

\* d[:n]
Prefix(d, n) == SubSeq(d, 1, n)

\* the elements of a slice as a multiset
BagOf(d) == [v \in {d[i] : i \in DOMAIN d} |-> Cardinality({i \in DOMAIN d : d[i] = v})]

-----------------------------------------------------------------------------
(* Comparators *)

\* The comparator of NewOrdered: a < b -> -1, a > b -> 1, else 0.
OrderedCmp(a, b) == IF a < b THEN -1 ELSE IF a > b THEN 1 ELSE 0

\* The comparator of NewOrderedMax: a > b -> -1, a < b -> 1, else 0.
OrderedMaxCmp(a, b) == IF a > b THEN -1 ELSE IF a < b THEN 1 ELSE 0

\* A caller-supplied comparator that is a total pre-order but not an order:
\* it compares a key of the element (as len(a) - len(b) does for strings),
\* so distinct elements can have equal priority.
Key(a) == a \div 2
KeyCmp(a, b) == Key(a) - Key(b)

\* compare(a, b) = len(a) - len(b) over strings
LenCmp(a, b) == Len(a) - Len(b)

Comparators == {"ordered", "orderedMax", "key"}

\* pq.comparator(a, b)
Compare(c, a, b) ==
    CASE c = "ordered"    -> OrderedCmp(a, b)
      [] c = "orderedMax" -> OrderedMaxCmp(a, b)
      [] c = "key"        -> KeyCmp(a, b)
      [] c = "len"        -> LenCmp(a, b)

\* Caller-supplied equality predicates of Contains and Remove.
Equalities == {"same", "sameKey"}

Equals(e, a, b) ==
    CASE e = "same"    -> a = b
      [] e = "sameKey" -> Key(a) = Key(b)

-----------------------------------------------------------------------------
(* PriorityQueue[T]: the methods as functions of the receiver's fields *)

\* Mutant of bubbleUp: an if in place of the for, at most one swap.
bubbleUpOneStep(d, c, i) ==
    IF i > 0
    THEN LET parent == (i - 1) \div 2
         IN  IF Compare(c, At(d, i), At(d, parent)) >= 0
             THEN d
             ELSE Swap(d, i, parent)
    ELSE d

RECURSIVE bubbleUp(_, _, _)
bubbleUp(d, c, i) ==
    IF i > 0
    THEN LET parent == (i - 1) \div 2
         IN  IF Compare(c, At(d, i), At(d, parent)) >= 0
             THEN d
             ELSE bubbleUp(Swap(d, i, parent), c, parent)
    ELSE d

\* Mutant of bubbleDownLoop: the right child is never looked at.
RECURSIVE bubbleDownLoopLeftOnly(_, _, _, _)
bubbleDownLoopLeftOnly(d, c, i, swapped) ==
    LET n == Len(d)
        left == 2 * i + 1
        smallest == IF left < n /\ Compare(c, At(d, left), At(d, i)) < 0
                    THEN left ELSE i
    IN  IF smallest = i
        THEN [data |-> d, swapped |-> swapped]
        ELSE bubbleDownLoopLeftOnly(Swap(d, i, smallest), c, smallest, TRUE)

\* Mutant of bubbleDownLoop: the right child is compared with the node, not
\* with the smaller of the node and the left child.
RECURSIVE bubbleDownLoopRightVsNode(_, _, _, _)
bubbleDownLoopRightVsNode(d, c, i, swapped) ==
    LET n == Len(d)
        left == 2 * i + 1
        right == 2 * i + 2
        s1 == IF left < n /\ Compare(c, At(d, left), At(d, i)) < 0
              THEN left ELSE i
        smallest == IF right < n /\ Compare(c, At(d, right), At(d, i)) < 0
                    THEN right ELSE s1
    IN  IF smallest = i
        THEN [data |-> d, swapped |-> swapped]
        ELSE bubbleDownLoopRightVsNode(Swap(d, i, smallest), c, smallest, TRUE)

\* One run of the loop of bubbleDown from index i; swapped is the flag so far.
RECURSIVE bubbleDownLoop(_, _, _, _)
bubbleDownLoop(d, c, i, swapped) ==
    LET n == Len(d)
        left == 2 * i + 1
        right == 2 * i + 2
        s1 == IF left < n /\ Compare(c, At(d, left), At(d, i)) < 0
              THEN left ELSE i
        smallest == IF right < n /\ Compare(c, At(d, right), At(d, s1)) < 0
                    THEN right ELSE s1
    IN  IF smallest = i
        THEN [data |-> d, swapped |-> swapped]
        ELSE bubbleDownLoop(Swap(d, i, smallest), c, smallest, TRUE)

\* bubbleDown(i): the slice after it, and whether any swap occurred.
bubbleDown(d, c, i) == bubbleDownLoop(d, c, i, FALSE)

\* Mutant of Pop: the empty queue is reported as a found zero value.
PopEmptyOk(d, c) ==
    IF Len(d) = 0
    THEN [data |-> d, val |-> Zero, ok |-> TRUE]
    ELSE LET top == At(d, 0)
             last == Len(d) - 1
             moved == Prefix([d EXCEPT ![1] = At(d, last)], last)
         IN  [data |-> bubbleDown(moved, c, 0).data, val |-> top, ok |-> TRUE]

\* Mutant of Pop: the slice is not shortened.
PopNoShrink(d, c) ==
    IF Len(d) = 0
    THEN [data |-> d, val |-> Zero, ok |-> FALSE]
    ELSE LET top == At(d, 0)
             last == Len(d) - 1
             moved == [d EXCEPT ![1] = At(d, last)]
         IN  [data |-> bubbleDown(moved, c, 0).data, val |-> top, ok |-> TRUE]

Pop(d, c) ==
    IF Len(d) = 0
    THEN [data |-> d, val |-> Zero, ok |-> FALSE]
    ELSE LET top == At(d, 0)
             last == Len(d) - 1
             moved == Prefix([d EXCEPT ![1] = At(d, last)], last)
         IN  [data |-> bubbleDown(moved, c, 0).data, val |-> top, ok |-> TRUE]

\* Mutant of Push: a full queue is not emptied of its root before the append.
PushNoEvict(d, c, cap, x) ==
    LET full == cap > 0 /\ Len(d) >= cap
    IN  IF full /\ Compare(c, x, At(d, 0)) <= 0
        THEN [data |-> d, ok |-> FALSE]
        ELSE LET grown == Append(d, x)
             IN  [data |-> bubbleUp(grown, c, Len(grown) - 1), ok |-> TRUE]

\* Mutant of Push: a full queue pops its root before the comparison.
PushEvictThenCheck(d, c, cap, x) ==
    LET full == cap > 0 /\ Len(d) >= cap
        room == IF full THEN Pop(d, c).data ELSE d
    IN  IF full /\ Compare(c, x, At(d, 0)) <= 0
        THEN [data |-> room, ok |-> FALSE]
        ELSE LET grown == Append(room, x)
             IN  [data |-> bubbleUp(grown, c, Len(grown) - 1), ok |-> TRUE]

Push(d, c, cap, x) ==
    LET full == cap > 0 /\ Len(d) >= cap
    IN  IF full /\ Compare(c, x, At(d, 0)) <= 0
        THEN [data |-> d, ok |-> FALSE]
        ELSE LET room == IF full THEN Pop(d, c).data ELSE d
                 grown == Append(room, x)
             IN  [data |-> bubbleUp(grown, c, Len(grown) - 1), ok |-> TRUE]

\* Mutant of Peek: the last element of the slice is returned.
PeekLast(d) ==
    IF Len(d) = 0
    THEN [val |-> Zero, ok |-> FALSE]
    ELSE [val |-> At(d, Len(d) - 1), ok |-> TRUE]

Peek(d) ==
    IF Len(d) = 0
    THEN [val |-> Zero, ok |-> FALSE]
    ELSE [val |-> At(d, 0), ok |-> TRUE]

PQLen(d) == Len(d)

IsEmpty(d) == Len(d) = 0

\* Mutant of Clear: the slice is cut to its first element.
ClearKeepsFirst(d) == Prefix(d, IF Len(d) > 0 THEN 1 ELSE 0)

Clear(d) == Prefix(d, 0)

Contains(d, x, e) == \E i \in 0..(Len(d) - 1) : Equals(e, At(d, i), x)

\* Mutant of removeAt: no bubbleUp when bubbleDown did not swap.
removeAtDownOnly(d, c, i) ==
    LET n == Len(d) - 1
    IN  IF n # i
        THEN bubbleDown(Prefix([d EXCEPT ![i + 1] = At(d, n)], n), c, i).data
        ELSE Prefix(d, n)

\* Mutant of removeAt: the slice is shortened without moving its last element.
removeAtDropLast(d, c, i) == Prefix(d, Len(d) - 1)

removeAt(d, c, i) ==
    LET n == Len(d) - 1
    IN  IF n # i
        THEN LET moved == Prefix([d EXCEPT ![i + 1] = At(d, n)], n)
                 down == bubbleDown(moved, c, i)
             IN  IF ~down.swapped THEN bubbleUp(down.data, c, i) ELSE down.data
        ELSE Prefix(d, n)

\* Mutant of Remove: the last matching element is removed, not the first.
RemoveLastHit(d, c, x, e) ==
    LET hits == {i \in 0..(Len(d) - 1) : Equals(e, At(d, i), x)}
    IN  IF hits = {}
        THEN [data |-> d, ok |-> FALSE]
        ELSE LET i == CHOOSE j \in hits : \A h \in hits : j >= h
             IN  [data |-> removeAt(d, c, i), ok |-> TRUE]

Remove(d, c, x, e) ==
    LET hits == {i \in 0..(Len(d) - 1) : Equals(e, At(d, i), x)}
    IN  IF hits = {}
        THEN [data |-> d, ok |-> FALSE]
        ELSE LET i == CHOOSE j \in hits : \A h \in hits : j <= h
             IN  [data |-> removeAt(d, c, i), ok |-> TRUE]

\* New, NewOrdered, NewOrderedMax: an unbounded queue with the given comparator.
New(c) == [data |-> <<>>, comparator |-> c, capacity |-> 0, panic |-> "none"]

NewOrdered == New("ordered")

NewOrderedMax == New("orderedMax")

\* Mutant of NewWithCapacity: a capacity <= 0 gives an unbounded queue.
NewWithCapacityFallback(c, cap) ==
    IF cap <= 0
    THEN [data |-> <<>>, comparator |-> c, capacity |-> 0, panic |-> "none"]
    ELSE [data |-> <<>>, comparator |-> c, capacity |-> cap, panic |-> "none"]

NewWithCapacity(c, cap) ==
    IF cap <= 0
    THEN [data |-> <<>>, comparator |-> c, capacity |-> 0,
          panic |-> "heap: capacity must be positive"]
    ELSE [data |-> <<>>, comparator |-> c, capacity |-> cap, panic |-> "none"]

-----------------------------------------------------------------------------
(* pq[T] of heap.go *)

defaultCap == 0

\* h.compare(a, b): a has higher priority than b
hcompare(min, a, b) == IF min THEN a < b ELSE a > b

\* Mutant of hbubbleUp: an if in place of the for, at most one swap.
hbubbleUpOneStep(d, min, i) ==
    IF i > 0
    THEN LET parent == (i - 1) \div 2
         IN  IF ~hcompare(min, At(d, i), At(d, parent))
             THEN d
             ELSE Swap(d, i, parent)
    ELSE d

RECURSIVE hbubbleUp(_, _, _)
hbubbleUp(d, min, i) ==
    IF i > 0
    THEN LET parent == (i - 1) \div 2
         IN  IF ~hcompare(min, At(d, i), At(d, parent))
             THEN d
             ELSE hbubbleUp(Swap(d, i, parent), min, parent)
    ELSE d

RECURSIVE hbubbleDown(_, _, _)
hbubbleDown(d, min, i) ==
    LET n == Len(d)
        left == 2 * i + 1
        right == 2 * i + 2
        b1 == IF left < n /\ hcompare(min, At(d, left), At(d, i))
              THEN left ELSE i
        best == IF right < n /\ hcompare(min, At(d, right), At(d, b1))
                THEN right ELSE b1
    IN  IF best = i
        THEN d
        ELSE hbubbleDown(Swap(d, i, best), min, best)

\* Mutant of hPop: the empty heap yields the zero value instead of a panic.
hPopZero(d, min) ==
    IF Len(d) = 0
    THEN [data |-> d, val |-> Zero, panic |-> "none"]
    ELSE LET top == At(d, 0)
             last == Len(d) - 1
             moved == Prefix([d EXCEPT ![1] = At(d, last)], last)
         IN  [data |-> hbubbleDown(moved, min, 0), val |-> top, panic |-> "none"]

hPop(d, min) ==
    IF Len(d) = 0
    THEN [data |-> d, val |-> Zero, panic |-> "heap: pop from empty heap"]
    ELSE LET top == At(d, 0)
             last == Len(d) - 1
             moved == Prefix([d EXCEPT ![1] = At(d, last)], last)
         IN  [data |-> hbubbleDown(moved, min, 0), val |-> top, panic |-> "none"]

\* Mutant of hPush: the full test is len(h.data) > h.cap.
hPushOffByOne(d, min, cap, x) ==
    LET popped == IF cap # 0 /\ Len(d) > cap
                  THEN hPop(d, min)
                  ELSE [data |-> d, val |-> Zero, panic |-> "none"]
    IN  IF popped.panic # "none"
        THEN [data |-> popped.data, panic |-> popped.panic]
        ELSE LET grown == Append(popped.data, x)
             IN  [data |-> hbubbleUp(grown, min, Len(grown) - 1), panic |-> "none"]

hPush(d, min, cap, x) ==
    LET popped == IF cap # 0 /\ Len(d) = cap
                  THEN hPop(d, min)
                  ELSE [data |-> d, val |-> Zero, panic |-> "none"]
    IN  IF popped.panic # "none"
        THEN [data |-> popped.data, panic |-> popped.panic]
        ELSE LET grown == Append(popped.data, x)
             IN  [data |-> hbubbleUp(grown, min, Len(grown) - 1), panic |-> "none"]

hLen(d) == Len(d)

\* New: the default min-heap.
hNew == [data |-> <<>>, cap |-> 0, min |-> TRUE, panic |-> "none"]

\* NewMin(size ...int), NewMax(size ...int): size is the variadic slice.
NewHeap(min, size) ==
    IF Len(size) > 0 /\ size[1] <= 0
    THEN [data |-> <<>>, cap |-> defaultCap, min |-> min,
          panic |-> "heap: invalid capacity"]
    ELSE [data |-> <<>>,
          cap |-> IF Len(size) > 0 THEN size[1] ELSE defaultCap,
          min |-> min, panic |-> "none"]

NewMin(size) == NewHeap(TRUE, size)

NewMax(size) == NewHeap(FALSE, size)

-----------------------------------------------------------------------------
(* Calls on a PriorityQueue[T] *)

NoCall == [op |-> "none"]
NoRet == [ok |-> TRUE]

\* The receiver of a PriorityQueue method, and of a pq method.
Receiver == [data |-> data, comparator |-> comparator, capacity |-> capacity]
HReceiver == [data |-> hdata, capacity |-> hcap]

\* The heap of heap.go, untouched while a PriorityQueue is exercised.
HeapIdle ==
    /\ hdata = <<>>
    /\ hcap = 0
    /\ hmin = TRUE

\* The PriorityQueue, untouched while a heap of heap.go is exercised.
QueueIdle ==
    /\ data = <<>>
    /\ comparator = "ordered"
    /\ capacity = 0

\* The queues a caller can construct.
Constructed ==
    {New(c) : c \in Comparators} \cup {NewOrdered, NewOrderedMax}
        \cup {NewWithCapacity(c, cap) : c \in Comparators, cap \in (-1)..MaxCap}

Init ==
    /\ \E q \in Constructed :
          /\ data = q.data
          /\ comparator = q.comparator
          /\ capacity = q.capacity
          /\ panicked = q.panic
    /\ HeapIdle
    /\ call = NoCall
    /\ ret = NoRet
    /\ old = [data |-> <<>>, capacity |-> 0]
    /\ out = <<>>
    /\ k = 0
    /\ m = 0
    /\ items = <<>>
    /\ loop = LoopIdle
    /\ acct = NoAccount
    /\ pc = "lib"
    /\ impl = "PriorityQueue"

\* An unbounded queue is followed up to MaxLen elements.
Room == capacity > 0 \/ Len(data) < MaxLen

PushStep(x) ==
    /\ panicked = "none"
    /\ Room
    /\ LET r == Push(data, comparator, capacity, x)
       IN  /\ data' = r.data
           /\ ret' = [ok |-> r.ok]
    /\ call' = [op |-> "Push", arg |-> x]
    /\ old' = Receiver
    /\ out' = <<>>

PopStep ==
    /\ panicked = "none"
    /\ LET r == Pop(data, comparator)
       IN  /\ data' = r.data
           /\ ret' = [val |-> r.val, ok |-> r.ok]
           /\ out' = IF r.ok THEN Append(out, r.val) ELSE out
    /\ call' = [op |-> "Pop"]
    /\ old' = Receiver

DoPush(x) ==
    /\ PushStep(x)
    /\ UNCHANGED <<comparator, capacity, hVars, panicked, k, m, pc, impl, items, loop, acct>>

DoPop ==
    /\ PopStep
    /\ UNCHANGED <<comparator, capacity, hVars, panicked, k, m, pc, impl, items, loop, acct>>

DoPeek ==
    /\ panicked = "none"
    /\ ret' = Peek(data)
    /\ call' = [op |-> "Peek"]
    /\ old' = Receiver
    /\ out' = <<>>
    /\ UNCHANGED <<pqVars, hVars, panicked, k, m, pc, impl, items, loop, acct>>

DoLen ==
    /\ panicked = "none"
    /\ ret' = [val |-> PQLen(data), ok |-> IsEmpty(data)]
    /\ call' = [op |-> "Len"]
    /\ old' = Receiver
    /\ out' = <<>>
    /\ UNCHANGED <<pqVars, hVars, panicked, k, m, pc, impl, items, loop, acct>>

DoClear ==
    /\ panicked = "none"
    /\ data' = Clear(data)
    /\ ret' = NoRet
    /\ call' = [op |-> "Clear"]
    /\ old' = Receiver
    /\ out' = <<>>
    /\ UNCHANGED <<comparator, capacity, hVars, panicked, k, m, pc, impl, items, loop, acct>>

DoContains(x, e) ==
    /\ panicked = "none"
    /\ ret' = [ok |-> Contains(data, x, e)]
    /\ call' = [op |-> "Contains", arg |-> x, equals |-> e]
    /\ old' = Receiver
    /\ out' = <<>>
    /\ UNCHANGED <<pqVars, hVars, panicked, k, m, pc, impl, items, loop, acct>>

DoRemove(x, e) ==
    /\ panicked = "none"
    /\ LET r == Remove(data, comparator, x, e)
       IN  /\ data' = r.data
           /\ ret' = [ok |-> r.ok]
    /\ call' = [op |-> "Remove", arg |-> x, equals |-> e]
    /\ old' = Receiver
    /\ out' = <<>>
    /\ UNCHANGED <<comparator, capacity, hVars, panicked, k, m, pc, impl, items, loop, acct>>

Next ==
    \/ \E x \in Values : DoPush(x)
    \/ DoPop
    \/ DoPeek
    \/ DoLen
    \/ DoClear
    \/ \E x \in Values, e \in Equalities : DoContains(x, e)
    \/ \E x \in Values, e \in Equalities : DoRemove(x, e)

Spec == Init /\ [][Next]_vars

-----------------------------------------------------------------------------
(* Size accounting: Push and Pop calls on an unbounded PriorityQueue,       *)
(* counted.                                                                 *)

InitCount ==
    /\ \E q \in {New(c) : c \in Comparators} \cup {NewOrdered, NewOrderedMax} :
          /\ data = q.data
          /\ comparator = q.comparator
          /\ capacity = q.capacity
          /\ panicked = q.panic
    /\ HeapIdle
    /\ call = NoCall
    /\ ret = NoRet
    /\ old = [data |-> <<>>, capacity |-> 0]
    /\ out = <<>>
    /\ k = 0
    /\ m = 0
    /\ items = <<>>
    /\ loop = LoopIdle
    /\ acct = NoAccount
    /\ pc = "lib"
    /\ impl = "PriorityQueue"

CountPush(x) ==
    /\ k < MaxCalls
    /\ PushStep(x)
    /\ k' = k + 1
    /\ UNCHANGED <<comparator, capacity, hVars, panicked, m, pc, impl, items, loop, acct>>

CountPop ==
    /\ PopStep
    /\ m' = IF Pop(data, comparator).ok THEN m + 1 ELSE m
    /\ UNCHANGED <<comparator, capacity, hVars, panicked, k, pc, impl, items, loop, acct>>

NextCount ==
    \/ \E x \in Values : CountPush(x)
    \/ CountPop

SpecCount == InitCount /\ [][NextCount]_vars

-----------------------------------------------------------------------------
(* Calls on a pq[T] of heap.go *)

\* The heaps a caller can construct: New(), NewMin(size...), NewMax(size...).
HeapsConstructed ==
    {hNew} \cup {NewMin(size) : size \in {<<>>} \cup {<<n>> : n \in (-1)..MaxCap}}
           \cup {NewMax(size) : size \in {<<>>} \cup {<<n>> : n \in (-1)..MaxCap}}

InitHeap ==
    /\ \E h \in HeapsConstructed :
          /\ hdata = h.data
          /\ hcap = h.cap
          /\ hmin = h.min
          /\ panicked = h.panic
    /\ QueueIdle
    /\ call = NoCall
    /\ ret = NoRet
    /\ old = [data |-> <<>>, capacity |-> 0]
    /\ out = <<>>
    /\ k = 0
    /\ m = 0
    /\ items = <<>>
    /\ loop = LoopIdle
    /\ acct = NoAccount
    /\ pc = "lib"
    /\ impl = "pq"

HeapPush(x) ==
    /\ panicked = "none"
    /\ hcap # 0 \/ Len(hdata) < MaxLen
    /\ LET r == hPush(hdata, hmin, hcap, x)
       IN  /\ hdata' = r.data
           /\ panicked' = r.panic
    /\ ret' = NoRet
    /\ call' = [op |-> "Push", arg |-> x]
    /\ old' = HReceiver
    /\ out' = <<>>
    /\ UNCHANGED <<hcap, hmin, pqVars, k, m, pc, impl, items, loop, acct>>

\* Pop, called whatever the length: on the empty heap it panics.
HeapPop ==
    /\ panicked = "none"
    /\ LET r == hPop(hdata, hmin)
       IN  /\ hdata' = r.data
           /\ panicked' = r.panic
           /\ ret' = IF r.panic = "none" THEN [val |-> r.val, ok |-> TRUE] ELSE NoRet
           /\ out' = IF r.panic = "none" THEN Append(out, r.val) ELSE out
    /\ call' = [op |-> "Pop"]
    /\ old' = HReceiver
    /\ UNCHANGED <<hcap, hmin, pqVars, k, m, pc, impl, items, loop, acct>>

HeapLen ==
    /\ panicked = "none"
    /\ ret' = [val |-> hLen(hdata), ok |-> TRUE]
    /\ call' = [op |-> "Len"]
    /\ old' = HReceiver
    /\ out' = <<>>
    /\ UNCHANGED <<hVars, pqVars, panicked, k, m, pc, impl, items, loop, acct>>

NextHeap ==
    \/ \E x \in Values : HeapPush(x)
    \/ HeapPop
    \/ HeapLen

SpecHeap == InitHeap /\ [][NextHeap]_vars

-----------------------------------------------------------------------------
(* The demo program: main() constructs a heap, pushes DemoInput, then pops  *)
(* and prints while Len() > 0.  It is run with the constructor call it      *)
(* makes, heap.NewMax[int](3), and with the other constructor calls of the  *)
(* two packages.                                                            *)

DemoInput == <<5, 3, 8, 1, 2, 4, 7, 6, 0, 9>>

DemoSizes == {<<>>} \cup {<<n>> : n \in (-1)..MaxDemoCap}

\* The constructor call of line 11, heap.NewMax[int](3), and the other
\* constructor calls of the two packages.
DemoCalls ==
    {[op |-> "NewMin", size |-> size] : size \in DemoSizes}
        \cup {[op |-> "NewMax", size |-> size] : size \in DemoSizes}
        \cup {[op |-> "New", comparator |-> c] : c \in Comparators}
        \cup {[op |-> "NewOrdered"], [op |-> "NewOrderedMax"]}
        \cup {[op |-> "NewWithCapacity", comparator |-> c, capacity |-> cap] :
                 c \in Comparators, cap \in (-1)..MaxDemoCap}

\* main() is about to run line 11, the constructor call.
InitMain ==
    /\ call \in DemoCalls
    /\ impl = IF call.op \in {"NewMin", "NewMax"} THEN "pq" ELSE "PriorityQueue"
    /\ QueueIdle
    /\ HeapIdle
    /\ panicked = "none"
    /\ ret = NoRet
    /\ old = [data |-> <<>>, capacity |-> 0]
    /\ out = <<>>
    /\ k = 0
    /\ m = 0
    /\ items = <<>>
    /\ loop = LoopIdle
    /\ acct = NoAccount
    /\ pc = "new"

\* pq := heap.NewMax[int](3), line 11: a constructor that panics ends main.
MainNew ==
    /\ pc = "new"
    /\ \/ /\ impl = "pq"
          /\ LET h == IF call.op = "NewMin"
                      THEN NewMin(call.size)
                      ELSE NewMax(call.size)
             IN  /\ hdata' = h.data
                 /\ hcap' = h.cap
                 /\ hmin' = h.min
                 /\ panicked' = h.panic
                 /\ pc' = IF h.panic = "none" THEN "push" ELSE "aborted"
          /\ UNCHANGED pqVars
       \/ /\ impl = "PriorityQueue"
          /\ LET q == CASE call.op = "New" -> New(call.comparator)
                        [] call.op = "NewOrdered" -> NewOrdered
                        [] call.op = "NewOrderedMax" -> NewOrderedMax
                        [] call.op = "NewWithCapacity" ->
                             NewWithCapacity(call.comparator, call.capacity)
             IN  /\ data' = q.data
                 /\ comparator' = q.comparator
                 /\ capacity' = q.capacity
                 /\ panicked' = q.panic
                 /\ pc' = IF q.panic = "none" THEN "push" ELSE "aborted"
          /\ UNCHANGED hVars
    /\ UNCHANGED <<call, ret, old, out, k, m, impl, items, loop, acct>>

\* pq.Push(DemoInput[k]), lines 12-21
MainPush ==
    /\ pc = "push"
    /\ panicked = "none"
    /\ LET x == DemoInput[k + 1]
       IN  /\ call' = [op |-> "Push", arg |-> x]
           /\ \/ /\ impl = "pq"
                 /\ LET r == hPush(hdata, hmin, hcap, x)
                    IN  /\ hdata' = r.data
                        /\ panicked' = r.panic
                 /\ ret' = NoRet
                 /\ old' = HReceiver
                 /\ UNCHANGED data
              \/ /\ impl = "PriorityQueue"
                 /\ LET r == Push(data, comparator, capacity, x)
                    IN  /\ data' = r.data
                        /\ ret' = [ok |-> r.ok]
                 /\ old' = Receiver
                 /\ UNCHANGED <<hdata, panicked>>
    /\ k' = k + 1
    /\ pc' = IF k + 1 = Len(DemoInput) THEN "pop" ELSE "push"
    /\ UNCHANGED <<comparator, capacity, hcap, hmin, out, m, impl, items, loop, acct>>

\* for pq.Len() > 0 { fmt.Println(pq.Pop()) }, lines 24-26
MainPop ==
    /\ pc = "pop"
    /\ panicked = "none"
    /\ call' = [op |-> "Pop"]
    /\ \/ /\ impl = "pq"
          /\ hLen(hdata) > 0
          /\ LET r == hPop(hdata, hmin)
             IN  /\ hdata' = r.data
                 /\ panicked' = r.panic
                 /\ ret' = [val |-> r.val, ok |-> TRUE]
                 /\ out' = Append(out, r.val)
          /\ old' = HReceiver
          /\ UNCHANGED data
       \/ /\ impl = "PriorityQueue"
          /\ PQLen(data) > 0
          /\ LET r == Pop(data, comparator)
             IN  /\ data' = r.data
                 /\ ret' = [val |-> r.val, ok |-> r.ok]
                 /\ out' = Append(out, r.val)
          /\ old' = Receiver
          /\ UNCHANGED <<hdata, panicked>>
    /\ m' = m + 1
    /\ UNCHANGED <<comparator, capacity, hcap, hmin, k, pc, impl, items, loop, acct>>

\* the loop condition fails: main returns
MainExit ==
    /\ pc = "pop"
    /\ panicked = "none"
    /\ IF impl = "pq" THEN hLen(hdata) = 0 ELSE PQLen(data) = 0
    /\ pc' = "done"
    /\ UNCHANGED <<pqVars, hVars, panicked, call, ret, old, out, k, m, impl, items, loop, acct>>

NextMain ==
    \/ MainNew
    \/ MainPush
    \/ MainPop
    \/ MainExit

SpecMain == InitMain /\ [][NextMain]_vars

-----------------------------------------------------------------------------
(* PriorityQueue []Item of src/unnamed/part_000: a max-heap on Priority *)

\* An Item; the Value is opaque to the queue.
Item(v, p) == [Value |-> v, Priority |-> p]

\* Item{}: a nil Value and Priority 0.
ZeroItem == Item("nil", 0)

\* The items a caller passes.
Items == {Item("a", p) : p \in Values}

RECURSIVE heapifyUp(_, _)
heapifyUp(d, index) ==
    IF index > 0
    THEN LET parent == (index - 1) \div 2
         IN  IF At(d, index).Priority <= At(d, parent).Priority
             THEN d
             ELSE heapifyUp(Swap(d, index, parent), parent)
    ELSE d

RECURSIVE heapifyDown(_, _)
heapifyDown(d, index) ==
    LET last == Len(d) - 1
        left == 2 * index + 1
        right == 2 * index + 2
        l1 == IF left <= last /\ At(d, left).Priority > At(d, index).Priority
              THEN left
              ELSE index
        largest == IF right <= last /\ At(d, right).Priority > At(d, l1).Priority
                   THEN right
                   ELSE l1
    IN  IF largest = index
        THEN d
        ELSE heapifyDown(Swap(d, index, largest), largest)

ItemPush(d, item) == heapifyUp(Append(d, item), Len(d))

\* Pop returns Item{} on the empty queue.
ItemPop(d) ==
    LET n == Len(d)
    IN  IF n = 0
        THEN [data |-> d, val |-> ZeroItem]
        ELSE [data |-> heapifyDown(Prefix([d EXCEPT ![1] = d[n]], n - 1), 0),
              val |-> At(d, 0)]

ItemPeek(d) == IF Len(d) = 0 THEN ZeroItem ELSE At(d, 0)

ItemLen(d) == Len(d)

\* sort.SliceStable with less(i, j) = Priority[i] > Priority[j]: insert x
\* after the items of the sorted prefix that are not below it.
RECURSIVE InsertStable(_, _)
InsertStable(sorted, x) ==
    IF sorted = <<>> \/ x.Priority > Head(sorted).Priority
    THEN <<x>> \o sorted
    ELSE <<Head(sorted)>> \o InsertStable(Tail(sorted), x)

RECURSIVE ItemSort(_)
ItemSort(d) ==
    IF d = <<>>
    THEN d
    ELSE InsertStable(ItemSort(Prefix(d, Len(d) - 1)), d[Len(d)])

ItemUpdate(d, index, newItem) ==
    IF index < 0 \/ index >= Len(d)
    THEN d
    ELSE LET oldPriority == At(d, index).Priority
             e == [d EXCEPT ![index + 1] = newItem]
         IN  IF newItem.Priority > oldPriority
             THEN heapifyUp(e, index)
             ELSE heapifyDown(e, index)

ItemRemove(d, index) ==
    LET n == Len(d)
    IN  IF index < 0 \/ index >= n
        THEN d
        ELSE heapifyDown(Prefix([d EXCEPT ![index + 1] = d[n]], n - 1), index)

\* The indexes a caller passes: in range and one out on either side.
Indexes == (-1)..MaxLen

InitItem ==
    /\ items = <<>>
    /\ QueueIdle
    /\ HeapIdle
    /\ panicked = "none"
    /\ call = NoCall
    /\ ret = NoRet
    /\ old = [data |-> <<>>]
    /\ out = <<>>
    /\ k = 0
    /\ m = 0
    /\ loop = LoopIdle
    /\ acct = NoAccount
    /\ pc = "lib"
    /\ impl = "Item"

\* What every call on the Item queue leaves alone, and records.
ItemCall(c, r) ==
    /\ call' = c
    /\ ret' = r
    /\ old' = [data |-> items]
    /\ UNCHANGED <<pqVars, hVars, panicked, out, k, m, pc, impl, loop, acct>>

DoItemPush(item) ==
    /\ Len(items) < MaxLen
    /\ items' = ItemPush(items, item)
    /\ ItemCall([op |-> "Push", item |-> item], NoRet)

DoItemPop ==
    /\ items' = ItemPop(items).data
    /\ ItemCall([op |-> "Pop"], ItemPop(items).val)

DoItemPeek ==
    /\ items' = items
    /\ ItemCall([op |-> "Peek"], ItemPeek(items))

DoItemLen ==
    /\ items' = items
    /\ ItemCall([op |-> "Len"], [n |-> ItemLen(items)])

DoItemSort ==
    /\ items' = ItemSort(items)
    /\ ItemCall([op |-> "Sort"], NoRet)

DoItemUpdate(index, newItem) ==
    /\ items' = ItemUpdate(items, index, newItem)
    /\ ItemCall([op |-> "Update", index |-> index, item |-> newItem], NoRet)

DoItemRemove(index) ==
    /\ items' = ItemRemove(items, index)
    /\ ItemCall([op |-> "Remove", index |-> index], NoRet)

NextItem ==
    \/ \E item \in Items : DoItemPush(item)
    \/ DoItemPop
    \/ DoItemPeek
    \/ DoItemLen
    \/ DoItemSort
    \/ \E index \in Indexes, item \in Items : DoItemUpdate(index, item)
    \/ \E index \in Indexes : DoItemRemove(index)

SpecItem == InitItem /\ [][NextItem]_vars

-----------------------------------------------------------------------------
(* Properties *)

\* No element is ordered strictly before its parent.
HeapOrdered(d, c) ==
    \A i \in 1..(Len(d) - 1) : Compare(c, At(d, i), At(d, (i - 1) \div 2)) >= 0

\* Push every element of xs, in order.
RECURSIVE PushAll(_, _, _, _)
PushAll(d, c, cap, xs) ==
    IF xs = <<>>
    THEN d
    ELSE PushAll(Push(d, c, cap, Head(xs)).data, c, cap, Tail(xs))

\* Pop until empty; the values in the order they were returned.
RECURSIVE Drain(_, _)
Drain(d, c) ==
    IF Len(d) = 0
    THEN <<>>
    ELSE LET r == Pop(d, c) IN <<r.val>> \o Drain(r.data, c)

\* The index Remove(x, equals) hands to removeAt on the slice d.
FirstHit(d, x, e) ==
    CHOOSE i \in 0..(Len(d) - 1) :
        /\ Equals(e, At(d, i), x)
        /\ \A j \in 0..(i - 1) : ~Equals(e, At(d, j), x)

\* C1: after any sequence of Push, Pop, Remove and Clear calls on a queue
\* built by New, NewWithCapacity, NewOrdered or NewOrderedMax, every index
\* i > 0 has comparator(data[i], data[(i-1)/2]) >= 0.
C1_HeapOrder == HeapOrdered(data, comparator)

\* C1 witness: a Remove took an inner element out of a heap of six, the last
\* element moved into its slot outranked the parent there, and bubbleUp
\* lifted it.
C1_Witness ==
    /\ call.op = "Remove"
    /\ ret.ok
    /\ Len(old.data) >= 6
    /\ LET i == FirstHit(old.data, call.arg, call.equals)
           n == Len(old.data) - 1
       IN  /\ 0 < i
           /\ i < n
           /\ Compare(comparator, At(old.data, n), At(old.data, (i - 1) \div 2)) < 0
           /\ At(data, i) = At(old.data, (i - 1) \div 2)

\* The sorted-extraction examples: the demo values under NewOrdered and
\* NewOrderedMax, and three strings ordered by length.
SortedExtractionExamples ==
    /\ Drain(PushAll(<<>>, "ordered", 0, DemoInput), "ordered")
           = <<0, 1, 2, 3, 4, 5, 6, 7, 8, 9>>
    /\ Drain(PushAll(<<>>, "orderedMax", 0, DemoInput), "orderedMax")
           = <<9, 8, 7, 6, 5, 4, 3, 2, 1, 0>>
    /\ Drain(PushAll(<<>>, "len", 0, <<"go", "rust", "python">>), "len")
           = <<"go", "rust", "python">>
    /\ Drain(PushAll(<<>>, "len", 0, <<"python", "rust", "go">>), "len")
           = <<"go", "rust", "python">>

\* C2: Pop on a non-empty queue returns (v, true) where no element held
\* before the call is ordered strictly before v, and takes exactly v out; so
\* the values of Pops made in a row come in non-decreasing comparator order,
\* and the example sequences pop sorted.
C2_PopReturnsLeast ==
    /\ (call.op = "Pop" /\ Len(old.data) > 0) =>
          /\ ret.ok
          /\ \A i \in 1..Len(old.data) :
                Compare(comparator, old.data[i], ret.val) >= 0
          /\ BagOf(old.data) = BagOf(data) (+) SetToBag({ret.val})
    /\ \A i \in 1..Len(out) : \A j \in i..Len(out) :
          Compare(comparator, out[i], out[j]) <= 0
    /\ SortedExtractionExamples

\* C2 witness: a queue of at least four elements, not all of one priority,
\* has been popped until empty.
C2_Witness ==
    /\ call.op = "Pop"
    /\ ret.ok
    /\ data = <<>>
    /\ Len(out) >= 4
    /\ Compare(comparator, out[1], out[Len(out)]) < 0

\* C3: a queue built by NewWithCapacity(cmp, cap) never holds more than cap
\* elements in a state a caller can observe.
C3_LenWithinCapacity == capacity > 0 => PQLen(data) <= capacity

\* C3 witness: a Push on a full queue was accepted and the queue is full
\* again.
C3_Witness ==
    /\ capacity > 1
    /\ call.op = "Push"
    /\ ret.ok
    /\ Len(old.data) = capacity
    /\ PQLen(data) = capacity

\* C4 as stated: on a full bounded queue Push(x) is rejected unless the
\* comparator orders x strictly before the root data[0]; when it does, the
\* root is popped, x is inserted and Push returns true.
C4_Original ==
    (call.op = "Push" /\ old.capacity > 0 /\ Len(old.data) >= old.capacity) =>
        LET x == call.arg
            root == old.data[1]
        IN  IF Compare(comparator, x, root) < 0
            THEN /\ ret.ok
                 /\ BagOf(data) (+) SetToBag({root})
                        = BagOf(old.data) (+) SetToBag({x})
            ELSE ~ret.ok

\* C5: whenever Push returns false the element slice and the capacity are
\* what they were before the call, the queue is bounded and was full, and
\* nothing panicked.
C5_RejectedPushChangesNothing ==
    (call.op = "Push" /\ ~ret.ok) =>
        /\ data = old.data
        /\ PQLen(data) = Len(old.data)
        /\ capacity = old.capacity
        /\ capacity > 0
        /\ Len(old.data) = capacity
        /\ panicked = "none"

\* C5 witness: a Push on a full queue of several elements returned false.
C5_Witness ==
    /\ call.op = "Push"
    /\ ~ret.ok
    /\ Len(data) >= 2
    /\ call.arg # data[1]

Min(a, b) == IF a < b THEN a ELSE b

\* C6 as stated: after the first k pushes of the demo input into a bounded
\* queue of capacity cap (no Pop yet), the queue holds min(k, cap) elements
\* and no pushed value that is not held is ordered strictly before a held
\* one by the queue's comparator.
C6_Original ==
    (impl = "PriorityQueue" /\ capacity > 0 /\ m = 0) =>
        LET pushed == {DemoInput[i] : i \in 1..k}
            held == {data[i] : i \in DOMAIN data}
        IN  /\ PQLen(data) = Min(k, capacity)
            /\ held \subseteq pushed
            /\ \A e \in held : \A p \in pushed \ held :
                  Compare(comparator, e, p) <= 0

\* The demo program has made its ten pushes and no Pop yet.
DemoPushed == pc = "pop" /\ k = Len(DemoInput) /\ m = 0

C8_EmptyPopPeek ==
    (call.op \in {"Pop", "Peek"} /\ Len(old.data) = 0) =>
        /\ ret = [val |-> Zero, ok |-> FALSE]
        /\ data = <<>>
        /\ IsEmpty(data)
        /\ capacity = old.capacity
        /\ panicked = "none"

\* C8 witness: a bounded queue was drained by Pop and popped once more.
C8_Witness ==
    /\ call.op = "Pop"
    /\ Len(old.data) = 0
    /\ Len(out) >= 2
    /\ capacity > 0

C10_SizeAccounting ==
    /\ call.op = "Push" => ret.ok
    /\ PQLen(data) = k - m
    /\ IsEmpty(data) <=> (k - m = 0)

\* C10 witness: pushes and pops were interleaved, the queue was emptied and
\* the last call was a Pop on the empty queue.
C10_Witness ==
    /\ k >= 4
    /\ m >= 2
    /\ call.op = "Pop"
    /\ ~ret.ok
    /\ k = m

\* C11: Remove(x, equals) returns true exactly when some held element
\* satisfies equals (the answer Contains gives on the same queue); on true
\* exactly the element at the lowest matching index is gone and Len() is one
\* less; on false the slice is unchanged.  Contains never changes the queue.
C11_RemoveFirstMatch ==
    /\ call.op = "Remove" =>
          LET found == Contains(old.data, call.arg, call.equals)
          IN  /\ ret.ok = found
              /\ ret.ok = (\E i \in 1..Len(old.data) :
                             Equals(call.equals, old.data[i], call.arg))
              /\ found =>
                    LET i == FirstHit(old.data, call.arg, call.equals)
                    IN  /\ BagOf(data) (+) SetToBag({At(old.data, i)})
                               = BagOf(old.data)
                        /\ PQLen(data) = Len(old.data) - 1
              /\ ~found => data = old.data
    /\ call.op = "Contains" =>
          /\ data = old.data
          /\ capacity = old.capacity
          /\ ret.ok = (\E i \in 1..Len(old.data) :
                         Equals(call.equals, old.data[i], call.arg))

\* C11 witness: a Remove by a predicate that several different held elements
\* satisfy took out the first of them, an inner element of the heap.
C11_Witness ==
    /\ call.op = "Remove"
    /\ ret.ok
    /\ Len(old.data) >= 4
    /\ LET i == FirstHit(old.data, call.arg, call.equals)
       IN  /\ i > 0
           /\ \E j \in (i + 1)..(Len(old.data) - 1) :
                 /\ Equals(call.equals, At(old.data, j), call.arg)
                 /\ At(old.data, j) # At(old.data, i)

\* The element a successful Remove just took out.
Removed == At(old.data, FirstHit(old.data, call.arg, call.equals))

\* A successful Remove was the last call, on an unbounded queue.
JustRemoved == call.op = "Remove" /\ ret.ok /\ capacity = 0

\* C12 as stated: after a Remove of a held element e, the Push of any
\* element whose priority equals e's gives a heap-ordered queue with the same
\* multiset of elements as before the Remove.
C12_Original ==
    JustRemoved =>
        \A y \in Values :
            Compare(comparator, y, Removed) = 0 =>
                LET p == Push(data, comparator, capacity, y)
                IN  /\ p.ok
                    /\ HeapOrdered(p.data, comparator)
                    /\ BagOf(p.data) = BagOf(old.data)

\* C12 amended: the Push gives a heap-ordered queue whose multiset of
\* elements is the one before the Remove with the removed element replaced
\* by the pushed one: the same multiset when the pushed element is the
\* removed one, the same multiset of priorities in every case.
C12_RoundTrip ==
    JustRemoved =>
        \A y \in Values :
            Compare(comparator, y, Removed) = 0 =>
                LET p == Push(data, comparator, capacity, y)
                IN  /\ p.ok
                    /\ HeapOrdered(p.data, comparator)
                    /\ BagOf(p.data) (+) SetToBag({Removed})
                           = BagOf(old.data) (+) SetToBag({y})
                    /\ y = Removed => BagOf(p.data) = BagOf(old.data)
                    /\ \A z \in Values :
                          Cardinality({i \in DOMAIN p.data :
                                         Compare(comparator, p.data[i], z) = 0})
                            = Cardinality({i \in DOMAIN old.data :
                                         Compare(comparator, old.data[i], z) = 0})

\* C12 witness: an inner element was removed from a heap of at least five,
\* and pushing it back gives a layout other than the one before the Remove.
C12_Witness ==
    /\ JustRemoved
    /\ Len(old.data) >= 5
    /\ FirstHit(old.data, call.arg, call.equals) \in 1..(Len(old.data) - 2)
    /\ Push(data, comparator, capacity, Removed).data # old.data

\* C13: Peek leaves the slice, the length, the comparator and the capacity
\* as they were, and on a non-empty queue returns (data[0], true), the element
\* a Pop made next returns.
C13_PeekIsPure ==
    call.op = "Peek" =>
        /\ data = old.data
        /\ PQLen(data) = Len(old.data)
        /\ capacity = old.capacity
        /\ comparator = old.comparator
        /\ Len(data) > 0 =>
              /\ ret = [val |-> At(data, 0), ok |-> TRUE]
              /\ Pop(data, comparator).ok
              /\ Pop(data, comparator).val = ret.val

\* C13 witness: a Peek on a queue of at least three elements that are not
\* all the same.
C13_Witness ==
    /\ call.op = "Peek"
    /\ ret.ok
    /\ Len(data) >= 3
    /\ At(data, Len(data) - 1) # At(data, 0)

\* The sequences of n elements.
Inputs(n) == [1..n -> Values]

\* C14: Clear leaves Len() = 0 and IsEmpty() true; no call changes the
\* comparator or the capacity; a bounded queue below its capacity accepts a
\* Push without eviction or rejection, so after a Clear a queue of capacity
\* cap takes cap elements, and the next Push does not grow it.
C14_ClearKeepsConfiguration ==
    /\ call.op # "none" =>
          /\ capacity = old.capacity
          /\ comparator = old.comparator
    /\ (call.op = "Push" /\ capacity > 0 /\ Len(old.data) < capacity) =>
          /\ ret.ok
          /\ BagOf(data) = BagOf(old.data) (+) SetToBag({call.arg})
    /\ call.op = "Clear" =>
          /\ PQLen(data) = 0
          /\ IsEmpty(data)
          /\ capacity > 0 =>
                \A xs \in Inputs(capacity) :
                    LET full == PushAll(data, comparator, capacity, xs)
                    IN  /\ BagOf(full) = BagOf(xs)
                        /\ \A y \in Values :
                              Len(Push(full, comparator, capacity, y).data)
                                  = capacity

\* C14 witness: a full bounded queue of several elements was cleared.
C14_Witness ==
    /\ call.op = "Clear"
    /\ capacity >= 2
    /\ Len(old.data) = capacity

\* The constructor calls, those that are given a capacity, and that capacity.
Constructors == {"New", "NewOrdered", "NewOrderedMax", "NewWithCapacity", "NewMin", "NewMax"}
HasSize(c) ==
    \/ c.op = "NewWithCapacity"
    \/ c.op \in {"NewMin", "NewMax"} /\ Len(c.size) > 0
SizeOf(c) == IF c.op = "NewWithCapacity" THEN c.capacity ELSE c.size[1]

\* C15: a bounded constructor given a capacity <= 0 panics at construction
\* and yields no heap; every heap it does construct has the capacity it was
\* given, at least 1, and starts empty.
C15_ConstructorFailsFast ==
    /\ (pc # "new" /\ call.op \in Constructors) =>
          LET cap == IF impl = "pq" THEN hcap ELSE capacity
              len == IF impl = "pq" THEN hLen(hdata) ELSE PQLen(data)
          IN  /\ (HasSize(call) /\ SizeOf(call) <= 0) =>
                    /\ pc = "aborted"
                    /\ panicked = IF impl = "pq"
                                  THEN "heap: invalid capacity"
                                  ELSE "heap: capacity must be positive"
              /\ (HasSize(call) /\ SizeOf(call) >= 1) =>
                    /\ panicked = "none"
                    /\ cap = SizeOf(call)
                    /\ cap >= 1
                    /\ len = 0
              /\ ~HasSize(call) =>
                    /\ panicked = "none"
                    /\ cap = 0
                    /\ len = 0
    /\ pc = "aborted" =>
          /\ call.op \in Constructors
          /\ k = 0
          /\ m = 0
    /\ pc \in {"push", "pop", "done"} => panicked = "none"

\* C15 witness: NewWithCapacity was called with capacity 0 and panicked.
C15_Witness ==
    /\ pc = "aborted"
    /\ call.op = "NewWithCapacity"
    /\ call.capacity = 0
    /\ panicked = "heap: capacity must be positive"

\* removeAt(i) on the heap d, i not the last index: the slice once the last
\* element has been moved into slot i.
Moved(d, i) == Prefix([d EXCEPT ![i + 1] = At(d, Len(d) - 1)], Len(d) - 1)

\* In removeAt(i) on d one repair direction is enough: when bubbleDown(i)
\* swaps, the element left at i does not outrank its parent, bubbleUp(i)
\* would change nothing and the heap is ordered; when it does not swap,
\* bubbleUp(i) alone orders the heap.
OneDirection(d, c, i) ==
    LET down == bubbleDown(Moved(d, i), c, i)
        up == bubbleUp(down.data, c, i)
    IN  IF down.swapped
        THEN /\ i > 0 => Compare(c, At(down.data, i),
                                    At(down.data, (i - 1) \div 2)) >= 0
             /\ up = down.data
             /\ HeapOrdered(down.data, c)
        ELSE /\ down.data = Moved(d, i)
             /\ HeapOrdered(up, c)

\* C16: for every heap the queue reaches and every index i but the last,
\* removeAt(i) needs one repair direction at most; and the removeAt a Remove
\* made left the result of that one direction.
C16_OneRepairDirection ==
    /\ \A i \in 0..(Len(data) - 2) : OneDirection(data, comparator, i)
    /\ (call.op = "Remove" /\ ret.ok) =>
          LET i == FirstHit(old.data, call.arg, call.equals)
          IN  i # Len(old.data) - 1 =>
                  LET down == bubbleDown(Moved(old.data, i), comparator, i)
                  IN  /\ OneDirection(old.data, comparator, i)
                      /\ data = IF down.swapped
                                THEN down.data
                                ELSE bubbleUp(down.data, comparator, i)

\* C16 witness: a Remove at an index with children whose bubbleDown did not
\* swap and whose bubbleUp then lifted the moved element.
C16_Witness ==
    /\ call.op = "Remove"
    /\ ret.ok
    /\ LET i == FirstHit(old.data, call.arg, call.equals)
       IN  /\ i # Len(old.data) - 1
           /\ ~bubbleDown(Moved(old.data, i), comparator, i).swapped
           /\ bubbleUp(Moved(old.data, i), comparator, i) # Moved(old.data, i)
           /\ data = bubbleUp(Moved(old.data, i), comparator, i)

\* No element of a pq has higher priority than its parent.
HOrdered(d, min) ==
    \A i \in 1..(Len(d) - 1) : ~hcompare(min, At(d, i), At(d, (i - 1) \div 2))

\* C17: a heap of heap.go built with a capacity never holds more than that;
\* the heap property holds at every index; a Push never panics and leaves x
\* in the heap; on a full heap it takes out the top element, the one Pop
\* returns, and nothing else, whatever x is.
C17_BoundedHeapPush ==
    /\ hcap # 0 => hLen(hdata) <= hcap
    /\ HOrdered(hdata, hmin)
    /\ call.op = "Push" =>
          /\ panicked = "none"
          /\ \E i \in 1..Len(hdata) : hdata[i] = call.arg
          /\ IF hcap # 0 /\ Len(old.data) = hcap
             THEN /\ BagOf(hdata) (+) SetToBag({hPop(old.data, hmin).val})
                        = BagOf(old.data) (+) SetToBag({call.arg})
                  /\ hPop(old.data, hmin).val = old.data[1]
                  /\ \A i \in 1..Len(old.data) :
                        ~hcompare(hmin, old.data[i], old.data[1])
             ELSE BagOf(hdata) = BagOf(old.data) (+) SetToBag({call.arg})

\* C17 witness: a Push on a full heap of three took out the top element and
\* put in an element of lower priority than it.
C17_Witness ==
    /\ call.op = "Push"
    /\ hcap >= 3
    /\ Len(old.data) = hcap
    /\ hcompare(hmin, old.data[1], call.arg)
    /\ hLen(hdata) = hcap

\* Every item's Priority is at most its parent's.
MaxHeapOrdered(d) ==
    \A i \in 1..(Len(d) - 1) : At(d, i).Priority <= At(d, (i - 1) \div 2).Priority

\* The call on the Item queue had an index outside the queue.
OutOfRange ==
    /\ call.op \in {"Update", "Remove"}
    /\ (call.index < 0 \/ call.index >= Len(old.data))

\* C18, as stated: after any calls of the Item queue every item's Priority
\* is at most its parent's, Peek and Pop return an item of maximum Priority,
\* and an out-of-range index or a Pop on the empty queue changes nothing.
C18_Original ==
    /\ MaxHeapOrdered(items)
    /\ (call.op \in {"Peek", "Pop"} /\ old.data # <<>>) =>
          \A i \in 1..Len(old.data) : old.data[i].Priority <= ret.Priority
    /\ (OutOfRange \/ (call.op = "Pop" /\ old.data = <<>>)) => items = old.data

-----------------------------------------------------------------------------
(* Element accounting: a caller of a PriorityQueue keeps books of what its  *)
(* calls took in and gave up.                                               *)

One(x) == SetToBag({x})

InitAccount ==
    /\ \E q \in Constructed :
          /\ data = q.data
          /\ comparator = q.comparator
          /\ capacity = q.capacity
          /\ panicked = q.panic
    /\ HeapIdle
    /\ call = NoCall
    /\ ret = NoRet
    /\ old = [data |-> <<>>, capacity |-> 0]
    /\ out = <<>>
    /\ k = 0
    /\ m = 0
    /\ items = <<>>
    /\ loop = LoopIdle
    /\ acct = NoAccount
    /\ pc = "lib"
    /\ impl = "PriorityQueue"

\* What the accounted calls leave alone.
AcctRest ==
    UNCHANGED <<comparator, capacity, hVars, panicked, call, ret, old, out,
                k, m, pc, impl, items, loop>>

\* Push(x): when it returns true x is booked as pushed, and the root of a
\* full queue as evicted.
AcctPush(x) ==
    /\ panicked = "none"
    /\ BagCardinality(acct.pushed) < MaxPushed
    /\ LET r == Push(data, comparator, capacity, x)
           full == capacity > 0 /\ Len(data) >= capacity
       IN  /\ data' = r.data
           /\ acct' = IF r.ok
                      THEN [acct EXCEPT !.pushed = @ (+) One(x),
                                        !.evicted = IF full
                                                    THEN @ (+) One(At(data, 0))
                                                    ELSE @]
                      ELSE acct
    /\ AcctRest

\* Pop(): the value returned with true is booked as popped.
AcctPop ==
    /\ panicked = "none"
    /\ LET r == Pop(data, comparator)
       IN  /\ data' = r.data
           /\ acct' = IF r.ok THEN [acct EXCEPT !.popped = @ (+) One(r.val)] ELSE acct
    /\ AcctRest

\* Remove(x, equals): when it returns true the first element in slice order
\* that equals accepts is booked as removed.
AcctRemove(x, e) ==
    /\ panicked = "none"
    /\ LET r == Remove(data, comparator, x, e)
       IN  /\ data' = r.data
           /\ acct' = IF r.ok
                      THEN [acct EXCEPT !.removed = @ (+) One(At(data, FirstHit(data, x, e)))]
                      ELSE acct
    /\ AcctRest

\* Clear(): every held element is booked as cleared.
AcctClear ==
    /\ panicked = "none"
    /\ data' = Clear(data)
    /\ acct' = [acct EXCEPT !.cleared = @ (+) BagOf(data)]
    /\ AcctRest

NextAccount ==
    \/ \E x \in Values : AcctPush(x)
    \/ AcctPop
    \/ \E x \in Values, e \in Equalities : AcctRemove(x, e)
    \/ AcctClear

SpecAccount == InitAccount /\ [][NextAccount]_vars

\* bubbleUp and bubbleDown from any index, on the held slice with any one
\* element replaced, give a permutation of what they were given.
SiftsPermute ==
    \A i \in 0..(Len(data) - 1), x \in Values :
        LET d == [data EXCEPT ![i + 1] = x]
        IN  /\ BagOf(bubbleUp(d, comparator, i)) = BagOf(d)
            /\ BagOf(bubbleDown(d, comparator, i).data) = BagOf(d)

\* A Push that a full bounded queue accepts takes out the root, and only
\* the root, and puts in x, and only x.
OverflowSwapsRootForX ==
    (capacity > 0 /\ Len(data) >= capacity) =>
        \A x \in Values :
            LET r == Push(data, comparator, capacity, x)
            IN  r.ok => BagOf(r.data) (+) One(At(data, 0)) = BagOf(data) (+) One(x)

\* C19, as stated: the held elements are the values accepted by Push, less
\* the values popped, less the elements removed, less the roots evicted;
\* the sifts only permute; an accepted Push on a full queue swaps the root
\* for x.
C19_Original ==
    /\ BagOf(data) (+) acct.popped (+) acct.removed (+) acct.evicted = acct.pushed
    /\ SiftsPermute
    /\ OverflowSwapsRootForX

\* C19, amended: the held elements are the values accepted by Push, less
\* the values popped, less the elements removed, less the roots evicted,
\* less the elements discarded by Clear; the sifts only permute; an accepted
\* Push on a full queue swaps the root for x.
C19_ElementAccounting ==
    /\ BagOf(data) (+) acct.popped (+) acct.removed (+) acct.evicted (+) acct.cleared
          = acct.pushed
    /\ SiftsPermute
    /\ OverflowSwapsRootForX

\* C19 witness: a full bounded queue holds elements after an overflowing
\* Push evicted a root, a Clear discarded elements, and a Pop or a Remove
\* took one out.
C19_Witness ==
    /\ capacity > 0
    /\ Len(data) = capacity
    /\ acct.evicted # EmptyBag
    /\ acct.cleared # EmptyBag
    /\ (acct.popped # EmptyBag \/ acct.removed # EmptyBag)

-----------------------------------------------------------------------------
(* Push, Pop and Remove followed one loop iteration at a time.  loop.pc is *)
(* the loop being run ("up" for bubbleUp, "down" for bubbleDown), loop.i   *)
(* its index variable, loop.swapped the flag of bubbleDown, loop.after     *)
(* what the method does when the loop ends, loop.x the element a Push      *)
(* still has to append and loop.index the argument of removeAt.            *)

\* One evaluation of the for of PriorityQueue.bubbleUp at index i.
upIter(d, c, i) ==
    IF i > 0
    THEN LET parent == (i - 1) \div 2
         IN  IF Compare(c, At(d, i), At(d, parent)) >= 0
             THEN [data |-> d, i |-> i, done |-> TRUE]
             ELSE [data |-> Swap(d, i, parent), i |-> parent, done |-> FALSE]
    ELSE [data |-> d, i |-> i, done |-> TRUE]

\* Mutant of downIter: the index is not moved to the child after the swap.
downIterSameIndex(d, c, i) ==
    LET n == Len(d)
        left == 2 * i + 1
        right == 2 * i + 2
        s1 == IF left < n /\ Compare(c, At(d, left), At(d, i)) < 0 THEN left ELSE i
        smallest == IF right < n /\ Compare(c, At(d, right), At(d, s1)) < 0
                    THEN right ELSE s1
    IN  IF smallest = i
        THEN [data |-> d, i |-> i, done |-> TRUE]
        ELSE [data |-> Swap(d, i, smallest), i |-> i, done |-> FALSE]

\* One pass through the body of the for of PriorityQueue.bubbleDown at index i.
downIter(d, c, i) ==
    LET n == Len(d)
        left == 2 * i + 1
        right == 2 * i + 2
        s1 == IF left < n /\ Compare(c, At(d, left), At(d, i)) < 0 THEN left ELSE i
        smallest == IF right < n /\ Compare(c, At(d, right), At(d, s1)) < 0
                    THEN right ELSE s1
    IN  IF smallest = i
        THEN [data |-> d, i |-> i, done |-> TRUE]
        ELSE [data |-> Swap(d, i, smallest), i |-> smallest, done |-> FALSE]

\* One evaluation of the for of pq.bubbleUp at index i.
hupIter(d, min, i) ==
    IF i > 0
    THEN LET parent == (i - 1) \div 2
         IN  IF ~hcompare(min, At(d, i), At(d, parent))
             THEN [data |-> d, i |-> i, done |-> TRUE]
             ELSE [data |-> Swap(d, i, parent), i |-> parent, done |-> FALSE]
    ELSE [data |-> d, i |-> i, done |-> TRUE]

\* One pass through the body of the for of pq.bubbleDown at index i.
hdownIter(d, min, i) ==
    LET n == Len(d)
        left == 2 * i + 1
        right == 2 * i + 2
        b1 == IF left < n /\ hcompare(min, At(d, left), At(d, i)) THEN left ELSE i
        best == IF right < n /\ hcompare(min, At(d, right), At(d, b1))
                THEN right ELSE b1
    IN  IF best = i
        THEN [data |-> d, i |-> i, done |-> TRUE]
        ELSE [data |-> Swap(d, i, best), i |-> best, done |-> FALSE]

\* The root is overwritten by the last element and the slice shortened.
LastToRoot(d) == Prefix([d EXCEPT ![1] = At(d, Len(d) - 1)], Len(d) - 1)

\* bubbleUp(i) is entered.
EnterUp(i) == [LoopIdle EXCEPT !.pc = "up", !.i = i]

\* bubbleDown(i) is entered.
EnterDown(i, after, x) ==
    [LoopIdle EXCEPT !.pc = "down", !.i = i, !.after = after, !.x = x, !.index = i]

InitLoop == Init \/ InitHeap

\* What the steps of a PriorityQueue method leave alone.
StepRest ==
    UNCHANGED <<comparator, capacity, hVars, panicked, call, ret, old, out,
                k, m, pc, impl, items, acct>>

\* What the steps of a pq method leave alone.
HStepRest ==
    UNCHANGED <<hcap, hmin, pqVars, call, ret, old, out, k, m, pc, impl, items, acct>>

Idle(which) == panicked = "none" /\ impl = which /\ loop.pc = "idle"

\* Push up to the first loop: rejected, or the root evicted and bubbleDown(0)
\* entered, or x appended and bubbleUp entered.
StepPush(x) ==
    /\ Idle("PriorityQueue")
    /\ Room
    /\ LET full == capacity > 0 /\ Len(data) >= capacity
       IN  IF full
           THEN IF Compare(comparator, x, At(data, 0)) <= 0
                THEN data' = data /\ loop' = loop
                ELSE data' = LastToRoot(data) /\ loop' = EnterDown(0, "push", x)
           ELSE data' = Append(data, x) /\ loop' = EnterUp(Len(data))
    /\ StepRest

\* Pop up to bubbleDown(0).
StepPop ==
    /\ Idle("PriorityQueue")
    /\ IF Len(data) = 0
       THEN data' = data /\ loop' = loop
       ELSE data' = LastToRoot(data) /\ loop' = EnterDown(0, "return", Zero)
    /\ StepRest

\* Remove up to the bubbleDown(i) of removeAt(i).
StepRemove(x, e) ==
    /\ Idle("PriorityQueue")
    /\ IF Contains(data, x, e)
       THEN LET i == FirstHit(data, x, e)
                n == Len(data) - 1
            IN  IF n # i
                THEN /\ data' = Prefix([data EXCEPT ![i + 1] = At(data, n)], n)
                     /\ loop' = EnterDown(i, "removeAt", Zero)
                ELSE data' = Prefix(data, n) /\ loop' = loop
       ELSE data' = data /\ loop' = loop
    /\ StepRest

\* One iteration of bubbleDown; at its break the method goes on: Pop
\* returns, Push appends x and enters bubbleUp, removeAt enters bubbleUp(i)
\* when nothing was swapped.
StepDown ==
    /\ impl = "PriorityQueue"
    /\ loop.pc = "down"
    /\ LET r == downIter(data, comparator, loop.i)
       IN  IF ~r.done
           THEN data' = r.data /\ loop' = [loop EXCEPT !.i = r.i, !.swapped = TRUE]
           ELSE CASE loop.after = "push" ->
                       data' = Append(data, loop.x) /\ loop' = EnterUp(Len(data))
                  [] loop.after = "removeAt" /\ ~loop.swapped ->
                       data' = data /\ loop' = EnterUp(loop.index)
                  [] OTHER ->
                       data' = data /\ loop' = LoopIdle
    /\ StepRest

\* One iteration of bubbleUp; at its end the method returns.
StepUp ==
    /\ impl = "PriorityQueue"
    /\ loop.pc = "up"
    /\ LET r == upIter(data, comparator, loop.i)
       IN  /\ data' = r.data
           /\ loop' = IF r.done THEN LoopIdle ELSE [loop EXCEPT !.i = r.i]
    /\ StepRest

\* pq.Push up to the first loop: the top taken out by Pop and bubbleDown(0)
\* entered, or x appended and bubbleUp entered.
HStepPush(x) ==
    /\ Idle("pq")
    /\ hcap # 0 \/ Len(hdata) < MaxLen
    /\ IF hcap # 0 /\ Len(hdata) = hcap
       THEN hdata' = LastToRoot(hdata) /\ loop' = EnterDown(0, "push", x)
       ELSE hdata' = Append(hdata, x) /\ loop' = EnterUp(Len(hdata))
    /\ panicked' = panicked
    /\ HStepRest

\* pq.Pop up to bubbleDown(0); it panics on the empty heap.
HStepPop ==
    /\ Idle("pq")
    /\ IF Len(hdata) = 0
       THEN hdata' = hdata /\ loop' = loop /\ panicked' = "heap: pop from empty heap"
       ELSE /\ hdata' = LastToRoot(hdata)
            /\ loop' = EnterDown(0, "return", Zero)
            /\ panicked' = panicked
    /\ HStepRest

\* One iteration of pq.bubbleDown; at its break Pop returns and Push appends
\* x and enters bubbleUp.
HStepDown ==
    /\ impl = "pq"
    /\ loop.pc = "down"
    /\ LET r == hdownIter(hdata, hmin, loop.i)
       IN  IF ~r.done
           THEN hdata' = r.data /\ loop' = [loop EXCEPT !.i = r.i, !.swapped = TRUE]
           ELSE IF loop.after = "push"
                THEN hdata' = Append(hdata, loop.x) /\ loop' = EnterUp(Len(hdata))
                ELSE hdata' = hdata /\ loop' = LoopIdle
    /\ panicked' = panicked
    /\ HStepRest

\* One iteration of pq.bubbleUp; at its end Push returns.
HStepUp ==
    /\ impl = "pq"
    /\ loop.pc = "up"
    /\ LET r == hupIter(hdata, hmin, loop.i)
       IN  /\ hdata' = r.data
           /\ loop' = IF r.done THEN LoopIdle ELSE [loop EXCEPT !.i = r.i]
    /\ panicked' = panicked
    /\ HStepRest

NextLoop ==
    \/ \E x \in Values : StepPush(x)
    \/ StepPop
    \/ \E x \in Values, e \in Equalities : StepRemove(x, e)
    \/ StepDown
    \/ StepUp
    \/ \E x \in Values : HStepPush(x)
    \/ HStepPop
    \/ HStepDown
    \/ HStepUp

\* A method that has been called keeps running: the loops take their next
\* iteration.
SpecLoop ==
    /\ InitLoop
    /\ [][NextLoop]_vars
    /\ WF_vars(StepDown)
    /\ WF_vars(StepUp)
    /\ WF_vars(HStepDown)
    /\ WF_vars(HStepUp)

\* From one iteration of a loop to the next, the index of bubbleUp goes down
\* and the index of bubbleDown goes up.
IndexMoves ==
    /\ (loop.pc = "up" /\ loop'.pc = "up") => (loop'.i < loop.i /\ loop'.i >= 0)
    /\ (loop.pc = "down" /\ loop'.pc = "down") =>
          (loop'.i > loop.i /\ loop'.i < Len(data') + Len(hdata'))

\* C20: in every Push, Pop and Remove of the PriorityQueue and every Push
\* and Pop of the pq, each iteration of bubbleUp lowers its index and each
\* iteration of bubbleDown raises it, and a method that has entered a loop
\* returns, a Push that first evicts included.
C20_Terminates ==
    /\ [][IndexMoves]_vars
    /\ (loop.pc # "idle") ~> (loop.pc = "idle")

\* C20 witness: a Push on a full queue took out the root, and bubbleDown has
\* moved down at least one level, with x still to be appended and sifted up.
C20_Witness ==
    /\ loop.pc = "down"
    /\ loop.after = "push"
    /\ loop.i > 0

====
